---- MODULE Spec2Model ----
(***************************************************************************)
(* A model of the src-ctx library: the source registry (SourceMap), the    *)
(* position values (SourceIndex, Offset, Span), the traversal cursor       *)
(* (Input) and the anchored error (SourceError) with its resolution into a *)
(* ContextErrorOrigin.                                                     *)
(*                                                                         *)
(* Text is a sequence of bytes.  A byte is a string token; the two-byte    *)
(* character U+00E9 is the lead byte "C3" followed by the continuation     *)
(* byte "A9".  Slicing a str at a position that is not a character         *)
(* boundary, or past its end, faults (a Rust panic), as does indexing a    *)
(* Vec out of range, a failed assert_eq!, and unwrap/expect on the empty   *)
(* case.  A fault is the value Fault.                                      *)
(***************************************************************************)
EXTENDS Integers, Sequences, FiniteSets, TLC

VARIABLES NEXT, pc, prev, maps, created, handed, cursor, mark, held, last

vars == <<NEXT, pc, prev, maps, created, handed, cursor, mark, held, last>>

----------------------------------------------------------------------------
(* Bounds of the model and constants of the program *)

\* stands for u32::MAX, the largest value of the AtomicU32 id counter and of a
\* data index, scaled down so that a run can exhaust the id sequence
U32Max == 3

\* the longest content drawn for a source in SpecInput
MaxLen == 3

\* the most directory entries below the root one enumeration yields
MaxWalk == 3

----------------------------------------------------------------------------
(* Values *)

Fault == [kind |-> "Fault"]

Ok(v) == [kind |-> "Ok", value |-> v]

None == [kind |-> "None"]

Some(v) == [kind |-> "Some", value |-> v]

IsFault(r) == r.kind = "Fault"

NL == "\n"

\* the bytes contents are made of
Bytes == {"a", NL, "C3", "A9"}

IsContinuation(b) == b = "A9"

IsLead(b) == b = "C3"

\* well-formed UTF-8: a lead byte is followed by a continuation byte, and a
\* continuation byte follows a lead byte
IsUtf8(s) ==
    /\ \A i \in 1..Len(s) : IsLead(s[i]) => (i < Len(s) /\ IsContinuation(s[i + 1]))
    /\ \A i \in 1..Len(s) : IsContinuation(s[i]) => (i > 1 /\ IsLead(s[i - 1]))

\* str::is_char_boundary
is_char_boundary(s, i) ==
    \/ i = 0
    \/ i = Len(s)
    \/ (i > 0 /\ i < Len(s) /\ ~IsContinuation(s[i + 1]))

\* &s[..n]
SliceTo(s, n) ==
    IF n <= Len(s) /\ is_char_boundary(s, n) THEN Ok(SubSeq(s, 1, n)) ELSE Fault

\* &s[n..]
SliceFrom(s, n) ==
    IF n <= Len(s) /\ is_char_boundary(s, n) THEN Ok(SubSeq(s, n + 1, Len(s))) ELSE Fault

\* &s[a..b]
SliceRange(s, a, b) ==
    IF a <= b /\ b <= Len(s) /\ is_char_boundary(s, a) /\ is_char_boundary(s, b)
    THEN Ok(SubSeq(s, a + 1, b))
    ELSE Fault

\* the positions of '\n' in s, as 0-based byte indices
NewlinesOf(s) == {i \in 0..(Len(s) - 1) : s[i + 1] = NL}

SetMax(S) == CHOOSE x \in S : \A y \in S : y <= x

SetMin(S) == CHOOSE x \in S : \A y \in S : x <= y

\* str::rfind('\n')
Rfind(s) == IF NewlinesOf(s) = {} THEN None ELSE Some(SetMax(NewlinesOf(s)))

\* str::find('\n')
Find(s) == IF NewlinesOf(s) = {} THEN None ELSE Some(SetMin(NewlinesOf(s)))

\* str::split('\n').count(): one more piece than there are separators
SplitCount(s) == Cardinality(NewlinesOf(s)) + 1

IsSuffixSeq(child, s) ==
    /\ Len(child) <= Len(s)
    /\ SubSeq(s, Len(s) - Len(child) + 1, Len(s)) = child

----------------------------------------------------------------------------
(* Paths and origins.  A path is its sequence of components, which is what *)
(* equality and hashing of Path see; a component is a sequence of text     *)
(* tokens.  Path text is a sequence of tokens with "/" between components. *)

SEP == "/"

RECURSIVE Path_new(_)
\* Path::new(text).components()
Path_new(text) ==
    IF text = <<>> THEN <<>>
    ELSE LET seps == {i \in 1..Len(text) : text[i] = SEP}
         IN IF seps = {} THEN <<text>>
            ELSE LET k == SetMin(seps)
                     head == SubSeq(text, 1, k - 1)
                     rest == Path_new(SubSeq(text, k + 1, Len(text)))
                 IN IF head = <<>> THEN rest ELSE <<head>> \o rest

\* Path::ends_with: whole components, compared from the end
Path_ends_with(path, child) == IsSuffixSeq(Path_new(child), path)

Origin_from_file(path) == [tag |-> "File", name |-> path]

Origin_from_named(name) == [tag |-> "Named", name |-> name]

----------------------------------------------------------------------------
(* SourceIndex, SourceData, Insert *)

SourceIndex(map_id, data_index) == [map_id |-> map_id, data_index |-> data_index]

SourceData(origin, content) == [origin |-> origin, content |-> content]

Inserted(idx) == [kind |-> "Inserted", index |-> idx]

Previous(idx) == [kind |-> "Previous", index |-> idx]

\* Insert::try_into_inserted; a faulted insert stays a fault
Insert_try_into_inserted(self) ==
    CASE self.kind = "Inserted" -> [kind |-> "Ok", value |-> self.index]
      [] self.kind = "Previous" -> [kind |-> "Err", value |-> self.index]
      [] OTHER -> Fault

\* Result::unwrap
Unwrap(r) == IF r.kind = "Ok" THEN r ELSE Fault

\* Vec indexing, 0-based: out of range faults
VecIndex(v, i) == IF i < Len(v) THEN Ok(v[i + 1]) ELSE Fault

----------------------------------------------------------------------------
(* Input (the constructor; the traversal operations follow the SourceMap) *)

Input_new(source_index, content) ==
    [source_index |-> source_index, content |-> content, byte |-> 0]

----------------------------------------------------------------------------
(* The id sequence *)

\* u32::checked_add(1)
checked_add(next) == IF next + 1 > U32Max THEN None ELSE Some(next + 1)

\* the update as a plain store: it succeeds whatever the counter holds by now
compare_exchange_store(current, expected) == TRUE

\* AtomicU32::compare_exchange_weak: succeeds when the counter still holds
\* the value that was loaded
compare_exchange(current, expected) == current = expected

\* fetch_next_source_map_id run without interference: the id is the value
\* before the update; None from checked_add makes expect fault
fetch_next_source_map_id(next) ==
    LET n == checked_add(next)
    IN IF n.kind = "None" THEN Fault
       ELSE [kind |-> "Ok", value |-> next, next |-> n.value]

----------------------------------------------------------------------------
(* SourceMap *)

NoMap == [kind |-> "NoMap"]

SourceMap_new(id) ==
    [kind |-> "SourceMap", id |-> id, origin_indices |-> [o \in {} |-> 0], data |-> <<>>]

SourceMap_contains(self, idx) == self.id = idx.map_id

SourceMap_origin(self, idx) ==
    IF self.id # idx.map_id THEN Fault
    ELSE LET d == VecIndex(self.data, idx.data_index)
         IN IF IsFault(d) THEN Fault ELSE Ok(d.value.origin)

\* content without the assert on the map id
SourceMap_content_unchecked(self, idx) ==
    LET d == VecIndex(self.data, idx.data_index)
    IN IF IsFault(d) THEN Fault ELSE Ok(d.value.content)

SourceMap_content(self, idx) ==
    IF self.id # idx.map_id THEN Fault
    ELSE LET d == VecIndex(self.data, idx.data_index)
         IN IF IsFault(d) THEN Fault ELSE Ok(d.value.content)

SourceMap_input(self, idx) ==
    IF self.id # idx.map_id THEN Fault
    ELSE LET d == VecIndex(self.data, idx.data_index)
         IN IF IsFault(d) THEN Fault ELSE Ok(Input_new(idx, d.value.content))

SourceMap_origins(self) == [i \in 1..Len(self.data) |-> self.data[i].origin]

SourceMap_origin_index(self, origin) ==
    IF origin \in DOMAIN self.origin_indices
    THEN Some(SourceIndex(self.id, self.origin_indices[origin]))
    ELSE None

SourceMap_file_index(self, path) ==
    LET hits == {o \in DOMAIN self.origin_indices : o.tag = "File" /\ o.name = path}
    IN IF hits = {} THEN None
       ELSE Some(SourceIndex(self.id, self.origin_indices[CHOOSE o \in hits : TRUE]))

SourceMap_contains_file(self, path) ==
    \E i \in 1..Len(self.data) :
        self.data[i].origin.tag = "File" /\ self.data[i].origin.name = path

\* insert that pushes the entry without looking for a previous one
SourceMap_insert_always_push(self, origin, content) ==
    IF Len(self.data) > U32Max
    THEN [map |-> self, result |-> Fault]
    ELSE [map |-> [self EXCEPT !.origin_indices = (origin :> Len(self.data)) @@ @,
                               !.data = Append(@, SourceData(origin, content))],
          result |-> Inserted(SourceIndex(self.id, Len(self.data)))]

\* insert as a map that replaces the content of a known origin
SourceMap_insert_overwrite(self, origin, content) ==
    IF origin \in DOMAIN self.origin_indices
    THEN [map |-> [self EXCEPT !.data[self.origin_indices[origin] + 1].content = content],
          result |-> Previous(SourceIndex(self.id, self.origin_indices[origin]))]
    ELSE LET index == Len(self.data)
         IN [map |-> [self EXCEPT !.origin_indices = (origin :> index) @@ @,
                                  !.data = Append(@, SourceData(origin, content))],
             result |-> Inserted(SourceIndex(self.id, index))]

\* SourceMap::insert: the map afterwards and the outcome
SourceMap_insert(self, origin, content) ==
    IF origin \in DOMAIN self.origin_indices
    THEN [map |-> self,
          result |-> Previous(SourceIndex(self.id, self.origin_indices[origin]))]
    ELSE IF Len(self.data) > U32Max
    THEN [map |-> self, result |-> Fault]
    ELSE LET index == Len(self.data)
         IN [map |-> [self EXCEPT !.origin_indices = (origin :> index) @@ @,
                                  !.data = Append(@, SourceData(origin, content))],
             result |-> Inserted(SourceIndex(self.id, index))]

\* std::fs::read_to_string as the file system answers it
IoError == [kind |-> "IoError"]

\* read_file that reads before it looks for a previous entry
SourceMap_read_file_read_first(self, path, fs) ==
    IF fs[path].kind # "Ok" THEN [kind |-> "Read", file |-> path]
    ELSE IF SourceMap_file_index(self, path).kind = "Some"
    THEN [kind |-> "Previous", index |-> SourceMap_file_index(self, path).value]
    ELSE [kind |-> "Ok", value |-> fs[path].value]

\* SourceMap::read_file: Ok(content), Previous(index) or Read(file)
SourceMap_read_file(self, path, fs) ==
    LET prev_index == SourceMap_file_index(self, path)
    IN IF prev_index.kind = "Some"
       THEN [kind |-> "Previous", index |-> prev_index.value]
       ELSE IF fs[path].kind = "Ok"
       THEN [kind |-> "Ok", value |-> fs[path].value]
       ELSE [kind |-> "Read", file |-> path]

LoadError_Read(file) == [kind |-> "Err", error |-> [kind |-> "Read", file |-> file]]

LoadError_Find(root, extension) ==
    [kind |-> "Err", error |-> [kind |-> "Find", root |-> root, extension |-> extension]]

\* SourceMap::load_file: the map afterwards and Ok(Insert), Err(LoadError) or Fault
SourceMap_load_file(self, path, fs) ==
    LET r == SourceMap_read_file(self, path, fs)
    IN CASE r.kind = "Previous" -> [map |-> self, result |-> Ok(Previous(r.index))]
         [] r.kind = "Read" -> [map |-> self, result |-> LoadError_Read(r.file)]
         [] OTHER ->
              LET ins == SourceMap_insert(self, Origin_from_file(path), r.value)
                  idx == Unwrap(Insert_try_into_inserted(ins.result))
              IN IF IsFault(idx) THEN [map |-> ins.map, result |-> Fault]
                 ELSE [map |-> ins.map, result |-> Ok(Inserted(idx.value))]

RECURSIVE load_directory_scan(_, _, _, _, _, _)
\* the for loop of load_directory over the enumeration: Ok(open) or Err(LoadError)
load_directory_scan(self, root, extension, walk, fs, open) ==
    IF walk = <<>> THEN Ok(open)
    ELSE LET entry == Head(walk)
         IN IF entry.kind = "Err" THEN LoadError_Find(root, extension)
            ELSE IF entry.is_file /\ Path_ends_with(entry.path, extension)
            THEN LET r == SourceMap_read_file(self, entry.path, fs)
                 IN CASE r.kind = "Ok" ->
                           load_directory_scan(self, root, extension, Tail(walk), fs,
                               Append(open, [kind |-> "Ok",
                                             origin |-> Origin_from_file(entry.path),
                                             content |-> r.value]))
                      [] r.kind = "Previous" ->
                           load_directory_scan(self, root, extension, Tail(walk), fs,
                               Append(open, [kind |-> "Err", index |-> r.index]))
                      [] OTHER -> LoadError_Read(r.file)
            ELSE load_directory_scan(self, root, extension, Tail(walk), fs, open)

RECURSIVE load_directory_insert(_, _, _)
\* the closing map over `open`: every read content is inserted
load_directory_insert(self, open, out) ==
    IF open = <<>> THEN [map |-> self, result |-> Ok(out)]
    ELSE LET o == Head(open)
         IN IF o.kind = "Ok"
            THEN LET ins == SourceMap_insert(self, o.origin, o.content)
                     idx == Unwrap(Insert_try_into_inserted(ins.result))
                 IN IF IsFault(idx) THEN [map |-> ins.map, result |-> Fault]
                    ELSE load_directory_insert(ins.map, Tail(open),
                                               Append(out, Inserted(idx.value)))
            ELSE load_directory_insert(self, Tail(open), Append(out, Previous(o.index)))

RECURSIVE load_directory_eager_loop(_, _, _, _, _, _)
load_directory_eager_loop(self, root, extension, walk, fs, out) ==
    IF walk = <<>> THEN [map |-> self, result |-> Ok(out)]
    ELSE LET entry == Head(walk)
         IN IF entry.kind = "Err"
            THEN [map |-> self, result |-> LoadError_Find(root, extension)]
            ELSE IF entry.is_file /\ Path_ends_with(entry.path, extension)
            THEN LET r == SourceMap_load_file(self, entry.path, fs)
                 IN IF r.result.kind = "Ok"
                    THEN load_directory_eager_loop(r.map, root, extension, Tail(walk), fs,
                                                   Append(out, r.result.value))
                    ELSE r
            ELSE load_directory_eager_loop(self, root, extension, Tail(walk), fs, out)

\* load_directory as a loop of load_file: every file is inserted as soon as it
\* is read
SourceMap_load_directory_eager(self, root, extension, walk, fs) ==
    load_directory_eager_loop(self, root, extension, walk, fs, <<>>)

\* SourceMap::load_directory: the map afterwards and Ok(outcomes), Err(LoadError)
\* or Fault
SourceMap_load_directory(self, root, extension, walk, fs) ==
    LET scan == load_directory_scan(self, root, extension, walk, fs, <<>>)
    IN IF scan.kind = "Err" THEN [map |-> self, result |-> scan]
       ELSE load_directory_insert(self, scan.value, <<>>)

----------------------------------------------------------------------------
(* Offset and Span *)

Offset_new(source_index, byte) == [source_index |-> source_index, byte |-> byte]

Offset_source_index(self) == self.source_index

Offset_byte(self) == self.byte

Offset_is_at_start(self) == self.byte = 0

Span_new(offset, byte_len) == [offset |-> offset, byte_len |-> byte_len]

\* span that keeps the receiver as the start, whatever the order
Offset_span_unordered(self, other) ==
    IF self.source_index # other.source_index THEN Fault
    ELSE Ok(Span_new(self, other.byte - self.byte))

\* Offset::span: the assert on the source indices, then the ordering swap
Offset_span(self, other) ==
    IF self.source_index # other.source_index THEN Fault
    ELSE LET a == IF other.byte < self.byte THEN other.byte ELSE self.byte
             b == IF other.byte < self.byte THEN self.byte ELSE other.byte
         IN Ok(Span_new(Offset_new(self.source_index, a), b - a))

Span_source_index(self) == self.offset.source_index

Span_start(self) == self.offset

Span_end(self) == Offset_new(self.offset.source_index, self.offset.byte + self.byte_len)

Span_byte_len(self) == self.byte_len

\* byte_range that takes the end byte in
Span_byte_range_closed(self) ==
    [start |-> self.offset.byte, end |-> self.offset.byte + self.byte_len + 1]

\* Span::byte_range: the half-open range start..end
Span_byte_range(self) ==
    [start |-> self.offset.byte, end |-> self.offset.byte + self.byte_len]

----------------------------------------------------------------------------
(* Input *)

Input_len(self) == Len(self.content)

Input_is_empty(self) == self.content = <<>>

Input_content(self) == self.content

Input_offset(self) == Offset_new(self.source_index, self.byte)

\* skip that drops the bytes and leaves the position where it was
Input_skip_keep_byte(self, byte_len) ==
    LET rest == SliceFrom(self.content, byte_len)
    IN IF IsFault(rest) THEN Fault
       ELSE Ok([source_index |-> self.source_index,
                content |-> rest.value,
                byte |-> self.byte])

\* Input::skip: &content[byte_len..] faults past the end or inside a character
Input_skip(self, byte_len) ==
    LET rest == SliceFrom(self.content, byte_len)
    IN IF IsFault(rest) THEN Fault
       ELSE Ok([source_index |-> self.source_index,
                content |-> rest.value,
                byte |-> self.byte + byte_len])

\* truncate that keeps the whole content for a count past its end
Input_truncate_clamped(self, byte_len) ==
    LET front == IF byte_len > Len(self.content)
                 THEN Ok(self.content)
                 ELSE SliceTo(self.content, byte_len)
    IN IF IsFault(front) THEN Fault
       ELSE Ok([source_index |-> self.source_index,
                content |-> front.value,
                byte |-> self.byte])

\* Input::truncate: &content[..byte_len] faults past the end or inside a character
Input_truncate(self, byte_len) ==
    LET front == SliceTo(self.content, byte_len)
    IN IF IsFault(front) THEN Fault
       ELSE Ok([source_index |-> self.source_index,
                content |-> front.value,
                byte |-> self.byte])

\* Input::split: (truncate, skip), a fault of either faulting the call
Input_split(self, byte_len) ==
    LET left == Input_truncate(self, byte_len)
        right == Input_skip(self, byte_len)
    IN IF IsFault(left) \/ IsFault(right) THEN Fault
       ELSE Ok(<<left.value, right.value>>)

Input_end(self) == Input_skip(self, Input_len(self))

\* the characters contents are made of, each the sequence of its bytes
CharSet == {<<"a">>, <<NL>>, <<"C3", "A9">>}

\* char::len_utf8
len_utf8(c) == Len(c)

\* str::chars().next(): the first character, one byte or a lead byte with its
\* continuation byte
chars_next(s) ==
    IF s = <<>> THEN None
    ELSE IF IsLead(s[1]) THEN Some(SubSeq(s, 1, 2))
    ELSE Some(<<s[1]>>)

\* str::starts_with(c)
starts_with(s, c) == Len(c) <= Len(s) /\ SubSeq(s, 1, Len(c)) = c

\* Input::char
Input_char(self) == chars_next(self.content)

\* skip_char that advances by one byte, whatever the character
Input_skip_char_one_byte(self, c) ==
    IF starts_with(self.content, c)
    THEN LET r == Input_skip(self, 1)
         IN IF IsFault(r) THEN Fault ELSE Some(r.value)
    ELSE None

\* Input::skip_char
Input_skip_char(self, c) ==
    IF starts_with(self.content, c)
    THEN LET r == Input_skip(self, len_utf8(c))
         IN IF IsFault(r) THEN Fault ELSE Some(r.value)
    ELSE None

\* Input::take_char
Input_take_char(self) ==
    LET c == Input_char(self)
    IN IF c.kind = "None" THEN None
       ELSE LET r == Input_skip(self, len_utf8(c.value))
            IN IF IsFault(r) THEN Fault ELSE Some(<<c.value, r.value>>)

----------------------------------------------------------------------------
(* Resolving offsets to lines *)

ContextErrorLocation_new(line, line_number, column_number) ==
    [line |-> line, line_number |-> line_number, column_number |-> column_number]

ContextErrorOrigin_new(origin, note, location, context) ==
    [origin |-> origin, note |-> note, location |-> location, context |-> context]

\* SourceMap::span_str
SourceMap_span_str(self, span) ==
    LET content == SourceMap_content(self, Span_source_index(span))
        range == Span_byte_range(span)
    IN IF IsFault(content) THEN Fault
       ELSE SliceRange(content.value, range.start, range.end)

\* line_span with the line starting at the '\n' itself, not after it
SourceMap_line_span_at_newline(self, offset) ==
    LET content == SourceMap_content(self, Offset_source_index(offset))
    IN IF IsFault(content) THEN Fault
       ELSE LET before == SliceTo(content.value, Offset_byte(offset))
                after == SliceFrom(content.value, Offset_byte(offset))
            IN IF IsFault(before) \/ IsFault(after) THEN Fault
               ELSE LET start == IF Rfind(before.value).kind = "Some"
                                 THEN Rfind(before.value).value
                                 ELSE 0
                        end == IF Find(after.value).kind = "Some"
                               THEN Find(after.value).value + Offset_byte(offset)
                               ELSE Len(content.value)
                    IN Ok(Span_new(Offset_new(Offset_source_index(offset), start),
                                   end - start))

\* SourceMap::line_span
SourceMap_line_span(self, offset) ==
    LET content == SourceMap_content(self, Offset_source_index(offset))
    IN IF IsFault(content) THEN Fault
       ELSE LET before == SliceTo(content.value, Offset_byte(offset))
                after == SliceFrom(content.value, Offset_byte(offset))
            IN IF IsFault(before) \/ IsFault(after) THEN Fault
               ELSE LET start == IF Rfind(before.value).kind = "Some"
                                 THEN Rfind(before.value).value + 1
                                 ELSE 0
                        end == IF Find(after.value).kind = "Some"
                               THEN Find(after.value).value + Offset_byte(offset)
                               ELSE Len(content.value)
                    IN Ok(Span_new(Offset_new(Offset_source_index(offset), start),
                                   end - start))

\* SourceMap::byte_offset_on_line
SourceMap_byte_offset_on_line(self, offset) ==
    LET line == SourceMap_line_span(self, offset)
    IN IF IsFault(line) THEN Fault
       ELSE Ok(Offset_byte(offset) - Offset_byte(Span_start(line.value)))

\* SourceMap::context_error_location
SourceMap_context_error_location(self, offset) ==
    LET line == SourceMap_line_span(self, offset)
    IN IF IsFault(line) THEN Fault
       ELSE LET start == Offset_byte(Span_start(line.value))
                end == Offset_byte(Span_end(line.value))
                content == SourceMap_content(self, Offset_source_index(offset))
                before == SliceTo(content.value, Offset_byte(offset))
                text == SliceRange(content.value, start, end)
            IN IF IsFault(content) \/ IsFault(before) \/ IsFault(text) THEN Fault
               ELSE Ok(ContextErrorLocation_new(text.value,
                                                SplitCount(before.value),
                                                1 + (Offset_byte(offset) - start)))

\* SourceMap::context_error_origin; context is None or Some(offset)
SourceMap_context_error_origin(self, offset, note, context) ==
    LET location == SourceMap_context_error_location(self, offset)
        ctx == IF context.kind = "Some"
               THEN SourceMap_context_error_location(self, context.value)
               ELSE Ok(None)
        origin == SourceMap_origin(self, Offset_source_index(offset))
    IN IF IsFault(location) \/ IsFault(ctx) \/ IsFault(origin) THEN Fault
       ELSE Ok(ContextErrorOrigin_new(
                 origin.value, note, location.value,
                 IF context.kind = "Some" THEN Some(ctx.value) ELSE None))

----------------------------------------------------------------------------
(* SourceError and ContextError *)

SourceError_new(error, offset, offset_note) ==
    [error |-> error, offset |-> offset, offset_note |-> offset_note,
     context_offset |-> None]

\* with_context that stores the offset without the assert
SourceError_with_context_unchecked(self, offset) ==
    Ok([self EXCEPT !.context_offset = Some(offset)])

\* SourceError::with_context: the assert on the source indices, then the store
SourceError_with_context(self, offset) ==
    IF Offset_source_index(self.offset) # Offset_source_index(offset) THEN Fault
    ELSE Ok([self EXCEPT !.context_offset = Some(offset)])

SourceError_error(self) == self.error

SourceError_offset(self) == self.offset

SourceError_context_offset(self) == self.context_offset

SourceError_note(self) == self.offset_note

Offset_error(self, error, offset_note) == SourceError_new(error, self, offset_note)

Input_error(self, error, offset_note) ==
    SourceError_new(error, Input_offset(self), offset_note)

ContextError_with_origins(error, origins) == [error |-> error, origins |-> origins]

\* into_context_error that resolves the context offset as the primary one
SourceError_into_context_error_swapped(self, map) ==
    LET origin == IF self.context_offset.kind = "Some"
                  THEN SourceMap_context_error_origin(map, self.context_offset.value,
                                                      self.offset_note, Some(self.offset))
                  ELSE SourceMap_context_error_origin(map, self.offset,
                                                      self.offset_note, None)
    IN IF IsFault(origin) THEN Fault
       ELSE Ok(ContextError_with_origins(self.error, <<origin.value>>))

\* SourceError::into_context_error
SourceError_into_context_error(self, map) ==
    LET origin == SourceMap_context_error_origin(map, self.offset, self.offset_note,
                                                 self.context_offset)
    IN IF IsFault(origin) THEN Fault
       ELSE Ok(ContextError_with_origins(self.error, <<origin.value>>))

----------------------------------------------------------------------------
(* Rendering.  Rendered text is a sequence of characters.  A character of a *)
(* content is the sequence of its bytes; a piece of a format string, and a  *)
(* displayed value that rendering never looks into, is one token.           *)

TAB == "\t"

\* the token of the grave accent that encloses a displayed name
BACKTICK == "grave"

Lit(x) == << <<x>> >>

Spaces(k) == [i \in 1..k |-> <<" ">>]

RECURSIVE chars(_)
\* str::chars()
chars(s) ==
    IF s = <<>> THEN <<>>
    ELSE LET c == chars_next(s).value
         IN <<c>> \o chars(SubSeq(s, Len(c) + 1, Len(s)))

Digit == <<"0", "1", "2", "3", "4", "5", "6", "7", "8", "9">>

RECURSIVE fmt_usize(_)
\* {n}: the decimal digits of n
fmt_usize(n) ==
    IF n < 10 THEN Lit(Digit[n + 1])
    ELSE fmt_usize(n \div 10) \o Lit(Digit[(n % 10) + 1])

\* {n:width$}: a number is padded on the left
fmt_usize_width(n, width) ==
    LET t == fmt_usize(n)
    IN (IF Len(t) < width THEN Spaces(width - Len(t)) ELSE <<>>) \o t

\* {:width$} of ""
fmt_empty_width(width) == Spaces(width)

RECURSIVE count_digits_loop(_, _)
count_digits_loop(n, digits) ==
    IF n > 0 THEN count_digits_loop(n \div 10, digits + 1) ELSE digits

\* helpers::count_digits
count_digits(n) == IF n = 0 THEN 1 ELSE count_digits_loop(n, 0)

RECURSIVE Path_display(_)
\* Path::display: the components with the separator between them
Path_display(path) ==
    IF path = <<>> THEN <<>>
    ELSE [k \in 1..Len(Head(path)) |-> <<Head(path)[k]>>]
           \o (IF Len(path) > 1 THEN Lit(SEP) \o Path_display(Tail(path)) ELSE <<>>)

\* ContextErrorOrigin::display
ContextErrorOrigin_display(self, include_prefix) ==
    IF self.origin.tag = "File"
    THEN (IF include_prefix THEN Lit("at ") ELSE <<>>)
           \o Path_display(self.origin.name)
           \o Lit(":") \o fmt_usize(self.location.line_number)
           \o Lit(":") \o fmt_usize(self.location.column_number)
    ELSE (IF include_prefix THEN Lit("in ") ELSE <<>>)
           \o Lit(BACKTICK) \o Lit(self.origin.name) \o Lit(BACKTICK)
           \o Lit(", line ") \o fmt_usize(self.location.line_number)
           \o Lit(", column ") \o fmt_usize(self.location.column_number)

ContextErrorOrigin_display_as_suffix(self) == ContextErrorOrigin_display(self, TRUE)

ContextErrorOrigin_display_as_location(self) == ContextErrorOrigin_display(self, FALSE)

\* the pointer characters: a tab for a tab, a space for anything else
pointer_char(c) == IF c = <<TAB>> THEN <<TAB>> ELSE <<" ">>

\* the context line written also when it is the primary line itself
fmt_context_lines_same_line(self, lnum_width) ==
    IF self.context.kind = "Some" /\ self.context.value.line_number <= self.location.line_number
    THEN Lit(" ") \o fmt_usize_width(self.context.value.line_number, lnum_width)
           \o Lit(" ") \o Lit("|") \o Lit(" ") \o chars(self.context.value.line)
           \o Lit(NL)
    ELSE <<>>

\* the lines written before the primary line: the context line and the
\* elision line
fmt_context_lines(self, lnum_width) ==
    IF self.context.kind = "Some"
    THEN LET ctx_lnum == self.context.value.line_number
             ctx_line == self.context.value.line
             self_lnum == self.location.line_number
         IN IF ctx_lnum < self_lnum
            THEN Lit(" ") \o fmt_usize_width(ctx_lnum, lnum_width) \o Lit(" ")
                   \o Lit("|") \o Lit(" ") \o chars(ctx_line) \o Lit(NL)
                   \o (IF ctx_lnum + 1 # self_lnum
                       THEN Lit(" ") \o fmt_empty_width(lnum_width) \o Lit(" ")
                              \o Lit("|") \o Lit(" ") \o Lit("...") \o Lit(NL)
                       ELSE <<>>)
            ELSE <<>>
    ELSE <<>>

\* impl Display for ContextErrorOrigin
ContextErrorOrigin_fmt(self) ==
    LET lnum_width == count_digits(self.location.line_number)
        self_lnum == self.location.line_number
        self_line == self.location.line
        skipped == SliceTo(self_line, self.location.column_number)
    IN IF IsFault(skipped) THEN Fault
       ELSE Ok(Lit("--> ") \o ContextErrorOrigin_display_as_location(self) \o Lit(NL)
                 \o fmt_context_lines(self, lnum_width)
                 \o Lit(" ") \o fmt_usize_width(self_lnum, lnum_width) \o Lit(" ")
                 \o Lit("|") \o Lit(" ") \o chars(self_line) \o Lit(NL)
                 \o Lit(" ") \o fmt_empty_width(lnum_width) \o Lit(" ") \o Lit("|")
                 \o [k \in 1..Len(chars(skipped.value)) |->
                       pointer_char(chars(skipped.value)[k])]
                 \o Lit("^") \o Lit(" ") \o Lit(self.note) \o Lit(NL))

\* an error value: its Display text and its Error::source
Error(text) == [text |-> text, source |-> None]

ErrorChain(text, inner) == [text |-> text, source |-> Some(inner)]

RECURSIVE fmt_causes_from_self(_)
\* the loop writing the error it stands at before it steps to the source
fmt_causes_from_self(curr) ==
    IF curr.source.kind = "Some"
    THEN Lit("cause: ") \o Lit(curr.text) \o Lit(NL)
           \o fmt_causes_from_self(curr.source.value)
    ELSE <<>>

RECURSIVE fmt_causes(_)
\* the while-let loop of display_with_context over the source chain
fmt_causes(curr) ==
    IF curr.source.kind = "Some"
    THEN Lit("cause: ") \o Lit(curr.source.value.text) \o Lit(NL)
           \o fmt_causes(curr.source.value)
    ELSE <<>>

RECURSIVE fmt_origins(_)
\* for origin in self.origins.iter() { write!(f, "{origin}")? }
fmt_origins(os) ==
    IF os = <<>> THEN Ok(<<>>)
    ELSE LET first == ContextErrorOrigin_fmt(Head(os))
             rest == fmt_origins(Tail(os))
         IN IF IsFault(first) \/ IsFault(rest) THEN Fault
            ELSE Ok(first.value \o rest.value)

\* ContextError::display_with_context
ContextError_display_with_context(self) ==
    LET blocks == fmt_origins(self.origins)
    IN IF IsFault(blocks) THEN Fault
       ELSE Ok(Lit("error: ") \o Lit(self.error.text) \o Lit(NL)
                 \o fmt_causes(self.error) \o blocks.value)

\* ContextError::display_with_outer_context
ContextError_display_with_outer_context(self) ==
    LET blocks == fmt_origins(self.origins)
    IN IF IsFault(blocks) THEN Fault
       ELSE Ok(Lit("error: ") \o Lit(self.error.text) \o Lit(NL) \o blocks.value)

RECURSIVE display_origins_as_suffix_all_commas(_)
\* the suffix with a comma after every origin but the last, and no "and"
display_origins_as_suffix_all_commas(os) ==
    CASE Len(os) = 0 -> <<>>
      [] Len(os) = 1 -> Lit(" ") \o ContextErrorOrigin_display_as_suffix(os[1])
      [] OTHER -> Lit(" ") \o ContextErrorOrigin_display_as_suffix(os[1]) \o Lit(",")
                    \o display_origins_as_suffix_all_commas(Tail(os))

RECURSIVE ContextError_display_origins_as_suffix(_)
\* ContextError::display_origins_as_suffix: the match on the slice of origins
ContextError_display_origins_as_suffix(os) ==
    CASE Len(os) = 0 -> <<>>
      [] Len(os) = 1 -> Lit(" ") \o ContextErrorOrigin_display_as_suffix(os[1])
      [] Len(os) = 2 -> Lit(" ") \o ContextErrorOrigin_display_as_suffix(os[1])
                          \o Lit(" and ") \o ContextErrorOrigin_display_as_suffix(os[2])
      [] OTHER -> Lit(" ") \o ContextErrorOrigin_display_as_suffix(os[1]) \o Lit(",")
                    \o ContextError_display_origins_as_suffix(Tail(os))

\* impl Display for ContextError
ContextError_fmt(self) ==
    Lit(self.error.text) \o ContextError_display_origins_as_suffix(self.origins)

\* map that builds the result anew and leaves the context offset out
SourceError_map_drop_context(self, map_error) ==
    SourceError_new(map_error[self.error], self.offset, self.offset_note)

\* SourceError::map
SourceError_map(self, map_error) ==
    [error |-> map_error[self.error],
     offset |-> self.offset,
     offset_note |-> self.offset_note,
     context_offset |-> self.context_offset]

----------------------------------------------------------------------------
(* The environment: map owners, the file system, directory enumerations *)

\* the places a program keeps its maps in; in SpecMaps each is its own thread
MapSlots == {"A", "B"}

Root == <<<<"d">>>>

\* d/.txt
FileA == <<<<"d">>, <<".txt">>>>

\* d/b.txt
FileB == <<<<"d">>, <<"b", ".txt">>>>

\* d/e/.txt
FileC == <<<<"d">>, <<"e">>, <<".txt">>>>

\* d/e
DirE == <<<<"d">>, <<"e">>>>

FilePaths == {FileA, FileB, FileC}

Extensions == {<<".txt">>}

FileText == <<"a">>

InsertOrigins == {Origin_from_file(FileA), Origin_from_named("n")}

InsertContents == {<<"a">>, <<"a", NL>>}

LoadPaths == {FileA, FileC}

\* what read_to_string answers per path: at most one of the files a run
\* reads is unreadable
FsSet ==
    {fs \in [FilePaths -> {Ok(FileText), IoError}] :
        /\ Cardinality({p \in FilePaths : fs[p].kind = "IoError"}) <= 1
        /\ fs[FileB].kind = "Ok"}

DirEntry(path, is_file) == [kind |-> "Ok", path |-> path, is_file |-> is_file]

WalkErr == [kind |-> "Err"]

Below ==
    {DirEntry(FileA, TRUE), DirEntry(FileB, TRUE), DirEntry(FileC, TRUE),
     DirEntry(DirE, FALSE)}

\* what walkdir yields below the root: every path once, a directory before
\* what it holds
BelowSeqs ==
    {w \in UNION {[1..n -> Below] : n \in 0..MaxWalk} :
        /\ \A i, j \in 1..Len(w) : i # j => w[i] # w[j]
        /\ \A j \in 1..Len(w) :
              w[j].path = FileC => \E i \in 1..(j - 1) : w[i].path = DirE}

\* an enumeration: the root, then the entries below it; the code stops at the
\* first error, so an error is the last item
Walks ==
    {<<WalkErr>>}
      \cup {<<DirEntry(Root, FALSE)>> \o w : w \in BelowSeqs}
      \cup {<<DirEntry(Root, FALSE)>> \o w \o <<WalkErr>> : w \in BelowSeqs}

----------------------------------------------------------------------------
(* Bookkeeping of the runs: which map instance issued which index.  The k-th *)
(* map ever created is instance k; created[k] is its slot and id.            *)

Instances(s) == {k \in 1..Len(created) : created[k].slot = s}

\* the instance the map now in slot s is
Inst(s) == SetMax(Instances(s))

\* the indices an outcome says were newly issued
NewlyIssued(result) ==
    IF result.kind = "Inserted" THEN {result.index} ELSE {}

Handed(s, indices) == {[idx |-> i, inst |-> Inst(s)] : i \in indices}

NoInput == [kind |-> "NoInput"]

NoMark == [kind |-> "NoMark"]

NoOp == [op |-> "none", slot |-> "A", args |-> <<>>, result |-> None, pre |-> NoMap]

Record(op, s, args, result, pre) ==
    [op |-> op, slot |-> s, args |-> args, result |-> result, pre |-> pre]

----------------------------------------------------------------------------
(* Spec: one owner, one registry: new, insert, load_file, load_directory *)

Init ==
    /\ NEXT = 0
    /\ pc = [t \in MapSlots |-> "idle"]
    /\ prev = [t \in MapSlots |-> 0]
    /\ maps = [s \in MapSlots |-> NoMap]
    /\ created = <<>>
    /\ handed = {}
    /\ cursor = NoInput
    /\ mark = NoMark
    /\ held = <<>>
    /\ last = NoOp

\* let map = SourceMap::new()
NewMap(s) ==
    /\ pc[s] = "idle"
    /\ maps[s] = NoMap
    /\ LET id == fetch_next_source_map_id(NEXT)
       IN IF IsFault(id)
          THEN /\ last' = Record("new", s, <<>>, Fault, NoMap)
               /\ UNCHANGED <<NEXT, maps, created>>
          ELSE /\ NEXT' = id.next
               /\ maps' = [maps EXCEPT ![s] = SourceMap_new(id.value)]
               /\ created' = Append(created, [slot |-> s, id |-> id.value])
               /\ last' = Record("new", s, <<>>, Ok(id.value), NoMap)
    /\ UNCHANGED <<pc, prev, handed, cursor, mark, held>>

\* map.insert(origin, content)
Insert(s, origin, content) ==
    /\ pc[s] = "idle"
    /\ maps[s] # NoMap
    /\ \E r \in {SourceMap_insert(maps[s], origin, content)} :
          /\ maps' = [maps EXCEPT ![s] = r.map]
          /\ handed' = handed \cup Handed(s, NewlyIssued(r.result))
          /\ last' = Record("insert", s, [origin |-> origin, content |-> content],
                            r.result, maps[s])
    /\ UNCHANGED <<NEXT, pc, prev, created, cursor, mark, held>>

\* map.load_file(path), the file system answering fs
LoadFile(s, path, fs) ==
    /\ pc[s] = "idle"
    /\ maps[s] # NoMap
    /\ \E r \in {SourceMap_load_file(maps[s], path, fs)} :
          /\ maps' = [maps EXCEPT ![s] = r.map]
          /\ handed' = handed \cup
                Handed(s, IF r.result.kind = "Ok" THEN NewlyIssued(r.result.value) ELSE {})
          /\ last' = Record("load_file", s, [path |-> path, fs |-> fs], r.result, maps[s])
    /\ UNCHANGED <<NEXT, pc, prev, created, cursor, mark, held>>

\* map.load_directory(root, extension), walkdir yielding walk and the file
\* system answering fs
LoadDirectory(s, extension, walk, fs) ==
    /\ pc[s] = "idle"
    /\ maps[s] # NoMap
    /\ \E r \in {SourceMap_load_directory(maps[s], Root, extension, walk, fs)} :
          /\ maps' = [maps EXCEPT ![s] = r.map]
          /\ handed' = handed \cup
                Handed(s, IF r.result.kind = "Ok"
                          THEN UNION {NewlyIssued(r.result.value[i]) :
                                        i \in 1..Len(r.result.value)}
                          ELSE {})
          /\ last' = Record("load_directory", s,
                            [extension |-> extension, walk |-> walk, fs |-> fs],
                            r.result, maps[s])
    /\ UNCHANGED <<NEXT, pc, prev, created, cursor, mark, held>>

Next ==
    \/ NewMap("A")
    \/ \E s \in MapSlots, origin \in InsertOrigins, content \in InsertContents :
          Insert(s, origin, content)
    \/ \E s \in MapSlots, path \in LoadPaths, fs \in FsSet : LoadFile(s, path, fs)
    \/ \E s \in MapSlots, extension \in Extensions, walk \in Walks, fs \in FsSet :
          LoadDirectory(s, extension, walk, fs)

Spec == Init /\ [][Next]_vars

----------------------------------------------------------------------------
(* SpecMaps: every slot is a thread that creates maps one after the other   *)
(* (the new map replaces, and so drops, the thread's previous one), inserts *)
(* into its map and looks indices up in it, its own and those the other     *)
(* threads' maps have issued.  SourceMap::new is the two steps of           *)
(* AtomicU32::fetch_update: the load, then the compare-exchange loop.       *)

MapsOrigins == {Origin_from_named("n")}

MapsContents == {<<"a">>}

Note == "test-note"

ErrorValue == "test-error"

\* the indices issued so far
HandedIndices == {h.idx : h \in handed}

\* fetch_update: let mut prev = self.load(fetch_order)
FetchLoad(t) ==
    /\ pc[t] = "idle"
    /\ pc' = [pc EXCEPT ![t] = "loaded"]
    /\ prev' = [prev EXCEPT ![t] = NEXT]
    /\ UNCHANGED <<NEXT, maps, created, handed, cursor, mark, held, last>>

\* fetch_update: f(prev) is Some(next) and the compare-exchange succeeds; new()
\* returns the map with the id prev
FetchCasOk(t) ==
    /\ pc[t] = "loaded"
    /\ checked_add(prev[t]).kind = "Some"
    /\ compare_exchange(NEXT, prev[t])
    /\ NEXT' = checked_add(prev[t]).value
    /\ maps' = [maps EXCEPT ![t] = SourceMap_new(prev[t])]
    /\ created' = Append(created, [slot |-> t, id |-> prev[t]])
    /\ pc' = [pc EXCEPT ![t] = "idle"]
    /\ last' = Record("new", t, <<>>, Ok(prev[t]), maps[t])
    /\ UNCHANGED <<prev, handed, cursor, mark, held>>

\* fetch_update: the compare-exchange fails and hands back the current value
FetchCasRetry(t) ==
    /\ pc[t] = "loaded"
    /\ checked_add(prev[t]).kind = "Some"
    /\ ~compare_exchange(NEXT, prev[t])
    /\ prev' = [prev EXCEPT ![t] = NEXT]
    /\ UNCHANGED <<NEXT, pc, maps, created, handed, cursor, mark, held, last>>

\* fetch_update: f(prev) is None, fetch_update returns Err and expect faults:
\* the thread ends
FetchExhausted(t) ==
    /\ pc[t] = "loaded"
    /\ checked_add(prev[t]).kind = "None"
    /\ pc' = [pc EXCEPT ![t] = "fault"]
    /\ last' = Record("new", t, <<>>, Fault, maps[t])
    /\ UNCHANGED <<NEXT, prev, maps, created, handed, cursor, mark, held>>

\* an operation that only reads the map of slot s
Observe(s, op, args, result) ==
    /\ last' = Record(op, s, args, result, maps[s])
    /\ UNCHANGED <<NEXT, pc, prev, maps, created, handed, cursor, mark, held>>

\* map.origin(idx)
GetOrigin(s, idx) ==
    /\ pc[s] = "idle"
    /\ maps[s] # NoMap
    /\ Observe(s, "origin", [idx |-> idx], SourceMap_origin(maps[s], idx))

\* map.content(idx)
GetContent(s, idx) ==
    /\ pc[s] = "idle"
    /\ maps[s] # NoMap
    /\ Observe(s, "content", [idx |-> idx], SourceMap_content(maps[s], idx))

\* map.input(idx)
GetInput(s, idx) ==
    /\ pc[s] = "idle"
    /\ maps[s] # NoMap
    /\ Observe(s, "input", [idx |-> idx], SourceMap_input(maps[s], idx))

\* the offsets of the source idx that its Inputs give in SpecMaps, where every
\* content is MapsContents' one byte: input.offset() and input.end().offset()
StartOf(idx) == Offset_new(idx, 0)

EndOf(idx) == Offset_new(idx, 1)

\* map.span_str(a.span(b)), a and b the start and the end of the source idx
GetSpanStr(s, idx) ==
    /\ pc[s] = "idle"
    /\ maps[s] # NoMap
    /\ Observe(s, "span_str", [idx |-> idx],
               SourceMap_span_str(maps[s], Offset_span(StartOf(idx), EndOf(idx)).value))

\* map.context_error_origin(offset, note, context), the offsets of the source idx
GetContextErrorOrigin(s, idx, with_ctx) ==
    /\ pc[s] = "idle"
    /\ maps[s] # NoMap
    /\ Observe(s, "context_error_origin", [idx |-> idx],
               SourceMap_context_error_origin(
                   maps[s], EndOf(idx), Note,
                   IF with_ctx THEN Some(StartOf(idx)) ELSE None))

\* offset.error(e, note).into_context_error(&map), the offset of the source idx
GetIntoContextError(s, idx) ==
    /\ pc[s] = "idle"
    /\ maps[s] # NoMap
    /\ Observe(s, "into_context_error", [idx |-> idx],
               SourceError_into_context_error(
                   Offset_error(StartOf(idx), ErrorValue, Note), maps[s]))

NextMaps ==
    \/ \E t \in MapSlots : FetchLoad(t)
    \/ \E t \in MapSlots : FetchCasOk(t)
    \/ \E t \in MapSlots : FetchCasRetry(t)
    \/ \E t \in MapSlots : FetchExhausted(t)
    \/ \E s \in MapSlots, origin \in MapsOrigins, content \in MapsContents :
          Insert(s, origin, content)
    \/ \E s \in MapSlots, idx \in HandedIndices : GetOrigin(s, idx)
    \/ \E s \in MapSlots, idx \in HandedIndices : GetContent(s, idx)
    \/ \E s \in MapSlots, idx \in HandedIndices : GetInput(s, idx)
    \/ \E s \in MapSlots, idx \in HandedIndices : GetSpanStr(s, idx)
    \/ \E s \in MapSlots, idx \in HandedIndices, with_ctx \in BOOLEAN :
          GetContextErrorOrigin(s, idx, with_ctx)
    \/ \E s \in MapSlots, idx \in HandedIndices : GetIntoContextError(s, idx)

SpecMaps == Init /\ [][NextMaps]_vars

----------------------------------------------------------------------------
(* SpecCursor: one map holding one source, whose content is any well-formed *)
(* text of at most MaxLen bytes; an Input is taken from the map and moved   *)
(* over the content by skip, truncate, split and end, and the offset it     *)
(* stands at is resolved to its line.                                       *)

AllContents == {c \in UNION {[1..n -> Bytes] : n \in 0..MaxLen} : IsUtf8(c)}

\* a map as new() and one insert leave it
MapWith(id, origin, content) ==
    SourceMap_insert(SourceMap_new(id), origin, content).map

InitCursor ==
    /\ NEXT = 1
    /\ pc = [t \in MapSlots |-> "idle"]
    /\ prev = [t \in MapSlots |-> 0]
    /\ \E c \in AllContents :
          maps = [s \in MapSlots |->
                    IF s = "A" THEN MapWith(0, Origin_from_named("n"), c) ELSE NoMap]
    /\ created = <<[slot |-> "A", id |-> 0]>>
    /\ handed = {[idx |-> SourceIndex(0, 0), inst |-> 1]}
    /\ cursor = NoInput
    /\ mark = NoMark
    /\ held = <<>>
    /\ last = NoOp

\* let cursor = map.input(idx)
TakeInput(s, idx) ==
    /\ pc[s] = "idle"
    /\ maps[s] # NoMap
    /\ \E r \in {SourceMap_input(maps[s], idx)} :
          /\ cursor' = IF IsFault(r) THEN cursor ELSE r.value
          /\ last' = Record("input", s, [idx |-> idx], r, maps[s])
    /\ UNCHANGED <<NEXT, pc, prev, maps, created, handed, mark, held>>

\* an operation of the Input the program holds: the receiver is left as it is
Traverse(op, byte_len, result) ==
    /\ last' = Record(op, "A", [input |-> cursor, byte_len |-> byte_len], result, NoMap)
    /\ UNCHANGED <<NEXT, pc, prev, maps, created, handed, cursor, mark, held>>

\* the byte counts tried on the cursor: up to its length, and one more
Counts == IF cursor = NoInput THEN {} ELSE 0..(Input_len(cursor) + 1)

\* cursor.skip(byte_len)
Skip(byte_len) ==
    /\ cursor # NoInput
    /\ Traverse("skip", byte_len, Input_skip(cursor, byte_len))

\* cursor.truncate(byte_len)
Truncate(byte_len) ==
    /\ cursor # NoInput
    /\ Traverse("truncate", byte_len, Input_truncate(cursor, byte_len))

\* cursor.split(byte_len)
Split(byte_len) ==
    /\ cursor # NoInput
    /\ Traverse("split", byte_len, Input_split(cursor, byte_len))

\* cursor.end()
End ==
    /\ cursor # NoInput
    /\ Traverse("end", Input_len(cursor), Input_end(cursor))

TraverseOps == {"skip", "truncate", "end"}

\* cursor = next: the program goes on with the Input an operation returned
\* (either half of a split)
Adopt(half) ==
    /\ last.result.kind = "Ok"
    /\ \/ /\ last.op \in TraverseOps
          /\ cursor' = last.result.value
       \/ /\ last.op = "split"
          /\ cursor' = last.result.value[half]
    /\ last' = Record("adopt", last.slot, <<>>, Ok(cursor'), NoMap)
    /\ UNCHANGED <<NEXT, pc, prev, maps, created, handed, mark, held>>

\* map.context_error_origin(cursor.offset(), note, None)
Resolve(s) ==
    /\ pc[s] = "idle"
    /\ maps[s] # NoMap
    /\ cursor # NoInput
    /\ Observe(s, "context_error_origin",
               [offset |-> Input_offset(cursor), context |-> None],
               SourceMap_context_error_origin(maps[s], Input_offset(cursor), Note, None))

\* cursor.char()
Char ==
    /\ cursor # NoInput
    /\ Traverse("char", 0, Input_char(cursor))

\* cursor.skip_char(c)
SkipChar(c) ==
    /\ cursor # NoInput
    /\ last' = Record("skip_char", "A", [input |-> cursor, c |-> c],
                      Input_skip_char(cursor, c), NoMap)
    /\ UNCHANGED <<NEXT, pc, prev, maps, created, handed, cursor, mark, held>>

\* cursor.take_char()
TakeChar ==
    /\ cursor # NoInput
    /\ Traverse("take_char", 0, Input_take_char(cursor))

\* if let Some(next) = ...: the program goes on with the Input skip_char or
\* take_char returned
AdoptChar ==
    /\ last.result.kind = "Some"
    /\ \/ /\ last.op = "skip_char"
          /\ cursor' = last.result.value
       \/ /\ last.op = "take_char"
          /\ cursor' = last.result.value[2]
    /\ last' = Record("adopt", last.slot, <<>>, Ok(cursor'), NoMap)
    /\ UNCHANGED <<NEXT, pc, prev, maps, created, handed, mark, held>>

NextCursor ==
    \/ \E s \in MapSlots, idx \in HandedIndices : TakeInput(s, idx)
    \/ \E n \in Counts : Skip(n)
    \/ \E n \in Counts : Truncate(n)
    \/ \E n \in Counts : Split(n)
    \/ End
    \/ \E half \in {1, 2} : Adopt(half)
    \/ \E s \in MapSlots : Resolve(s)
    \/ Char
    \/ \E c \in CharSet : SkipChar(c)
    \/ TakeChar
    \/ AdoptChar

SpecCursor == InitCursor /\ [][NextCursor]_vars

----------------------------------------------------------------------------
(* SpecError: map A holds two sources and map B one; an Input is taken and  *)
(* moved, offsets are marked, spans are formed in both receiver orders and  *)
(* read back, and SourceErrors are built, given a context offset and        *)
(* resolved through a map.                                                  *)

\* the two sources of map A and the source of map B
ErrorContentFirst == <<"a", NL, "C3", "A9">>

ErrorContentSecond == <<"a", "a">>

ErrorContentOther == <<"a">>

InitError ==
    /\ NEXT = 2
    /\ pc = [t \in MapSlots |-> "idle"]
    /\ prev = [t \in MapSlots |-> 0]
    /\ maps = [s \in MapSlots |->
                 IF s = "A"
                 THEN SourceMap_insert(
                          MapWith(0, Origin_from_named("n"), ErrorContentFirst),
                          Origin_from_named("m"), ErrorContentSecond).map
                 ELSE MapWith(1, Origin_from_named("n"), ErrorContentOther)]
    /\ created = <<[slot |-> "A", id |-> 0], [slot |-> "B", id |-> 1]>>
    /\ handed = {[idx |-> SourceIndex(0, 0), inst |-> 1],
                 [idx |-> SourceIndex(0, 1), inst |-> 1],
                 [idx |-> SourceIndex(1, 0), inst |-> 2]}
    /\ cursor = NoInput
    /\ mark = NoMark
    /\ held = <<>>
    /\ last = NoOp

\* let mark = cursor.offset()
SetMark ==
    /\ cursor # NoInput
    /\ mark' = Input_offset(cursor)
    /\ last' = Record("offset", "A", [input |-> cursor], Ok(mark'), NoMap)
    /\ UNCHANGED <<NEXT, pc, prev, maps, created, handed, cursor, held>>

\* a call that involves no map and leaves what the program holds as it is
Compute(op, args, result) ==
    /\ last' = Record(op, "A", args, result, NoMap)
    /\ UNCHANGED <<NEXT, pc, prev, maps, created, handed, cursor, mark, held>>

\* cursor.offset().span(mark), or mark.span(cursor.offset())
MakeSpan(swap) ==
    /\ cursor # NoInput
    /\ mark # NoMark
    /\ LET a == IF swap THEN mark ELSE Input_offset(cursor)
           b == IF swap THEN Input_offset(cursor) ELSE mark
       IN Compute("span", [a |-> a, b |-> b], Offset_span(a, b))

\* map.span_str(span), of the span just formed
GetSpanText(s) ==
    /\ last.op = "span"
    /\ last.result.kind = "Ok"
    /\ Observe(s, "span_str", [span |-> last.result.value],
               SourceMap_span_str(maps[s], last.result.value))

\* cursor.error(error, note)
NewError ==
    /\ cursor # NoInput
    /\ Compute("error", [input |-> cursor],
               Ok(Input_error(cursor, ErrorValue, Note)))

ErrorOps == {"error", "with_context"}

\* error.with_context(mark), of the error just built
WithContext ==
    /\ last.op \in ErrorOps
    /\ last.result.kind = "Ok"
    /\ mark # NoMark
    /\ Compute("with_context", [self |-> last.result.value, offset |-> mark],
               SourceError_with_context(last.result.value, mark))

\* error.into_context_error(map), of the error just built
IntoContextError(s) ==
    /\ last.op \in ErrorOps
    /\ last.result.kind = "Ok"
    /\ Observe(s, "into_context_error",
               [self |-> last.result.value,
                offset |-> SourceError_offset(last.result.value),
                context |-> SourceError_context_offset(last.result.value)],
               SourceError_into_context_error(last.result.value, maps[s]))

\* map.context_error_origin(cursor.offset(), note, Some(mark))
ResolveWithContext(s) ==
    /\ maps[s] # NoMap
    /\ cursor # NoInput
    /\ mark # NoMark
    /\ Observe(s, "context_error_origin",
               [offset |-> Input_offset(cursor), context |-> Some(mark)],
               SourceMap_context_error_origin(maps[s], Input_offset(cursor), Note,
                                              Some(mark)))

\* the values an error is mapped from and to
ErrorValues == {ErrorValue, "~test-error~"}

\* the closures given to map
MapFns == [ErrorValues -> ErrorValues]

\* error.map(map_error), of the error just built
MapError(map_error) ==
    /\ last.op \in ErrorOps \cup {"map"}
    /\ last.result.kind = "Ok"
    /\ Compute("map", [self |-> last.result.value, map_error |-> map_error],
               Ok(SourceError_map(last.result.value, map_error)))

NextError ==
    \/ \E s \in MapSlots, idx \in HandedIndices : TakeInput(s, idx)
    \/ \E n \in Counts : Skip(n)
    \/ \E n \in Counts : Split(n)
    \/ \E half \in {1, 2} : Adopt(half)
    \/ SetMark
    \/ \E swap \in BOOLEAN : MakeSpan(swap)
    \/ \E s \in MapSlots : GetSpanText(s)
    \/ NewError
    \/ WithContext
    \/ \E s \in MapSlots : IntoContextError(s)
    \/ \E s \in MapSlots : ResolveWithContext(s)
    \/ \E map_error \in MapFns : MapError(map_error)

SpecError == InitError /\ [][NextError]_vars

----------------------------------------------------------------------------
(* SpecRender: one map holding one named source, whose content is any      *)
(* well-formed text of at most MaxRender bytes with tabs in it, or a text  *)
(* of ten lines; an Input is taken and moved character by character,       *)
(* offsets are marked and resolved, alone or with the mark as context, and *)
(* the resulting origin is formatted.                                      *)

\* the longest content drawn for the source in SpecRender
MaxRender == 3

RenderBytes == {"a", NL, TAB, "C3", "A9"}

\* nine empty lines and a tenth of one character
TenLines == <<NL, NL, NL, NL, NL, NL, NL, NL, NL, "a">>

RenderContents ==
    {c \in UNION {[1..n -> RenderBytes] : n \in 0..MaxRender} : IsUtf8(c)}
      \cup {TenLines}

InitRender ==
    /\ NEXT = 1
    /\ pc = [t \in MapSlots |-> "idle"]
    /\ prev = [t \in MapSlots |-> 0]
    /\ \E c \in RenderContents :
          maps = [s \in MapSlots |->
                    IF s = "A" THEN MapWith(0, Origin_from_named("n"), c) ELSE NoMap]
    /\ created = <<[slot |-> "A", id |-> 0]>>
    /\ handed = {[idx |-> SourceIndex(0, 0), inst |-> 1]}
    /\ cursor = NoInput
    /\ mark = NoMark
    /\ held = <<>>
    /\ last = NoOp

\* format!("{origin}"), of the origin just resolved
FormatOrigin ==
    /\ last.op = "context_error_origin"
    /\ last.result.kind = "Ok"
    /\ Compute("fmt", [origin |-> last.result.value],
               ContextErrorOrigin_fmt(last.result.value))

NextRender ==
    \/ \E s \in MapSlots, idx \in HandedIndices : TakeInput(s, idx)
    \/ TakeChar
    \/ AdoptChar
    \/ SetMark
    \/ \E s \in MapSlots : Resolve(s)
    \/ \E s \in MapSlots : ResolveWithContext(s)
    \/ FormatOrigin

SpecRender == InitRender /\ [][NextRender]_vars

----------------------------------------------------------------------------
(* SpecReport: a map holding a named source of two lines and a file source *)
(* of one; an Input is taken and moved, the offsets it stands at are       *)
(* resolved to origins the program collects, and errors with and without   *)
(* a source chain are displayed with the collected origins.                *)

\* the most origins collected for one error
MaxOrigins == 3

ReportContentNamed == <<"a", NL, "a">>

ReportContentFile == <<"a">>

\* an error without a cause, with one cause, and with a cause that has a cause
ReportErrors ==
    {Error("test-error"),
     ErrorChain("test-chain", Error("test-error")),
     ErrorChain("test-outer", ErrorChain("test-chain", Error("test-error")))}

InitReport ==
    /\ NEXT = 1
    /\ pc = [t \in MapSlots |-> "idle"]
    /\ prev = [t \in MapSlots |-> 0]
    /\ maps = [s \in MapSlots |->
                 IF s = "A"
                 THEN SourceMap_insert(
                          MapWith(0, Origin_from_named("n"), ReportContentNamed),
                          Origin_from_file(FileB), ReportContentFile).map
                 ELSE NoMap]
    /\ created = <<[slot |-> "A", id |-> 0]>>
    /\ handed = {[idx |-> SourceIndex(0, 0), inst |-> 1],
                 [idx |-> SourceIndex(0, 1), inst |-> 1]}
    /\ cursor = NoInput
    /\ mark = NoMark
    /\ held = <<>>
    /\ last = NoOp

\* origins.push(map.context_error_origin(cursor.offset(), note, None))
Collect(s) ==
    /\ pc[s] = "idle"
    /\ maps[s] # NoMap
    /\ cursor # NoInput
    /\ Len(held) < MaxOrigins
    /\ \E r \in {SourceMap_context_error_origin(maps[s], Input_offset(cursor), Note, None)} :
          /\ held' = IF IsFault(r) THEN held ELSE Append(held, r.value)
          /\ last' = Record("context_error_origin", s,
                            [offset |-> Input_offset(cursor), context |-> None],
                            r, maps[s])
    /\ UNCHANGED <<NEXT, pc, prev, maps, created, handed, cursor, mark>>

\* format!("{}", ContextError::with_origins(error, origins))
Display(error) ==
    Compute("display", [error |-> error, origins |-> held],
            Ok(ContextError_fmt(ContextError_with_origins(error, held))))

\* format!("{}", ContextError::with_origins(error, origins).display_with_context())
DisplayWithContext(error) ==
    Compute("display_with_context", [error |-> error, origins |-> held],
            ContextError_display_with_context(ContextError_with_origins(error, held)))

\* format!("{}", ContextError::with_origins(error, origins).display_with_outer_context())
DisplayWithOuterContext(error) ==
    Compute("display_with_outer_context", [error |-> error, origins |-> held],
            ContextError_display_with_outer_context(
                ContextError_with_origins(error, held)))

NextReport ==
    \/ \E s \in MapSlots, idx \in HandedIndices : TakeInput(s, idx)
    \/ TakeChar
    \/ AdoptChar
    \/ \E s \in MapSlots : Collect(s)
    \/ \E error \in ReportErrors : Display(error)
    \/ \E error \in ReportErrors : DisplayWithContext(error)
    \/ \E error \in ReportErrors : DisplayWithOuterContext(error)

SpecReport == InitReport /\ [][NextReport]_vars

----------------------------------------------------------------------------
(* Claims about the registry, checked under Spec *)

\* the slots (1-based) of `self` that hold `origin`
SlotsOf(self, origin) == {i \in 1..Len(self.data) : self.data[i].origin = origin}

\* C1: insert with an Origin that is already registered returns Previous(i),
\* i being the index issued when the Origin was first inserted, adds no entry
\* and leaves content(i) and origin(i) as they were, the supplied content being
\* discarded; insert with an Origin not yet registered returns Inserted with a
\* fresh index, under which the supplied content and origin are found.
C1_InsertPreviousOrFresh ==
    last.op = "insert" =>
        LET pre == last.pre
            post == maps[last.slot]
            origin == last.args.origin
            at == SlotsOf(pre, origin)
        IN IF at # {}
           THEN /\ \E i \in at :
                     /\ last.result = Previous(SourceIndex(pre.id, i - 1))
                     /\ [idx |-> SourceIndex(pre.id, i - 1), inst |-> Inst(last.slot)] \in handed
                     /\ SourceMap_content(post, last.result.index) = Ok(pre.data[i].content)
                     /\ SourceMap_origin(post, last.result.index) = Ok(origin)
                /\ Len(post.data) = Len(pre.data)
                /\ \A i \in 1..Len(pre.data) :
                     /\ SourceMap_content(post, SourceIndex(pre.id, i - 1))
                          = SourceMap_content(pre, SourceIndex(pre.id, i - 1))
                     /\ SourceMap_origin(post, SourceIndex(pre.id, i - 1))
                          = SourceMap_origin(pre, SourceIndex(pre.id, i - 1))
           ELSE /\ last.result.kind = "Inserted"
                /\ last.result.index.map_id = pre.id
                /\ \A i \in 1..Len(pre.data) : last.result.index.data_index # i - 1
                /\ Len(post.data) = Len(pre.data) + 1
                /\ SourceMap_content(post, last.result.index) = Ok(last.args.content)
                /\ SourceMap_origin(post, last.result.index) = Ok(origin)

\* C1 witness: a second insert under a registered origin, with another content
\* than the one stored, has returned Previous
C1_Witness ==
    /\ last.op = "insert"
    /\ last.result.kind = "Previous"
    /\ Len(last.pre.data) = 2
    /\ SourceMap_content(last.pre, last.result.index) # Ok(last.args.content)

\* load_directory's enumeration or one of its reads fails: the walk holds an
\* error, or a selected file that is not registered yet and cannot be read
WalkFails(pre, args) ==
    \E i \in 1..Len(args.walk) :
        \/ args.walk[i].kind = "Err"
        \/ /\ args.walk[i].kind = "Ok"
           /\ args.walk[i].is_file
           /\ Path_ends_with(args.walk[i].path, args.extension)
           /\ ~SourceMap_contains_file(pre, args.walk[i].path)
           /\ args.fs[args.walk[i].path].kind = "IoError"

\* C2: load_directory is all-or-nothing: when the enumeration or any read
\* fails, the call returns an error and the map (entries, their order, the
\* origin-to-slot mapping) is what it was before the call; the map changes only
\* in a call in which nothing failed.
C2_LoadDirectoryAllOrNothing ==
    last.op = "load_directory" =>
        /\ WalkFails(last.pre, last.args) =>
              (last.result.kind = "Err" /\ maps[last.slot] = last.pre)
        /\ last.result.kind = "Err" => maps[last.slot] = last.pre
        /\ maps[last.slot] # last.pre =>
              (last.result.kind = "Ok" /\ ~WalkFails(last.pre, last.args))

\* C2 witness: a read failed after an earlier selected file had been read
\* successfully, and the call returned the read error
C2_Witness ==
    /\ last.op = "load_directory"
    /\ last.result.kind = "Err"
    /\ last.result.error.kind = "Read"
    /\ last.result.error.file = FileC
    /\ \E i \in 1..Len(last.args.walk) :
          /\ last.args.walk[i].kind = "Ok"
          /\ last.args.walk[i].path = FileA
          /\ ~SourceMap_contains_file(last.pre, FileA)
          /\ last.args.fs[FileA].kind = "Ok"
    /\ Len(last.pre.data) = 1

----------------------------------------------------------------------------
(* Claims about map ids and foreign indices, checked under SpecMaps *)

AccessOps ==
    {"origin", "content", "input", "span_str", "context_error_origin",
     "into_context_error"}

\* idx was issued by another map instance than the one now in slot s
IssuedByOther(s, idx) == \E h \in handed : h.idx = idx /\ h.inst # Inst(s)

\* C3: for a SourceIndex issued by another SourceMap instance, content, origin
\* and input, and span_str, context_error_origin and into_context_error built
\* on them, fault instead of returning data.
C3_ForeignIndexFaults ==
    (last.op \in AccessOps /\ IssuedByOther(last.slot, last.args.idx))
        => IsFault(last.result)

\* C3 witness: content was asked of a map for an index another map issued,
\* the index's slot number being one the asked map holds an entry at, and the
\* call faulted
C3_Witness ==
    /\ last.op = "content"
    /\ IssuedByOther(last.slot, last.args.idx)
    /\ last.args.idx.data_index < Len(maps[last.slot].data)
    /\ IsFault(last.result)

\* C4: every SourceMap ever created has an id no other has, with maps
\* created concurrently and with the id range running out (the creation then
\* faults, no id is reused); so contains(index) holds exactly for the indices
\* the map itself issued.
C4_MapIdsUnique ==
    /\ \A i, j \in 1..Len(created) : i # j => created[i].id # created[j].id
    /\ \A i \in 1..Len(created) : created[i].id < U32Max
    /\ \A t \in MapSlots : pc[t] = "fault" => NEXT = U32Max
    /\ \A s \in MapSlots :
          maps[s] # NoMap =>
              \A h \in handed : SourceMap_contains(maps[s], h.idx) <=> (h.inst = Inst(s))

\* C4 witness: both threads have created maps, the id range is used up, a
\* creation has faulted on it, and a live map is asked about an index that
\* another instance issued
C4_Witness ==
    /\ \E t \in MapSlots : pc[t] = "fault"
    /\ Len(created) = U32Max
    /\ \A t \in MapSlots : Instances(t) # {}
    /\ \E s \in MapSlots :
          /\ maps[s] # NoMap
          /\ \E h \in handed : h.inst # Inst(s) /\ ~SourceMap_contains(maps[s], h.idx)

----------------------------------------------------------------------------
(* Claims about the cursor and line resolution, checked under SpecCursor *)

\* the content a source index names in the map of slot s
ContentAt(s, idx) == maps[s].data[idx.data_index + 1].content

\* the byte after the nearest '\n' before P, 0 if there is none
LineStartOf(C, P) ==
    LET nls == {i \in 0..(P - 1) : C[i + 1] = NL}
    IN IF nls = {} THEN 0 ELSE SetMax(nls) + 1

\* the nearest '\n' at or after P, the length of C if there is none
LineEndOf(C, P) ==
    LET nls == {i \in P..(Len(C) - 1) : C[i + 1] = NL}
    IN IF nls = {} THEN Len(C) ELSE SetMin(nls)

\* the location claimed for byte position P of content C
LocationLaw(C, P, loc) ==
    LET s == LineStartOf(C, P)
        e == LineEndOf(C, P)
    IN /\ P \in 0..Len(C)
       /\ s <= P /\ P <= e
       /\ loc.line = SubSeq(C, s + 1, e)
       /\ \A k \in 1..Len(loc.line) : loc.line[k] # NL
       /\ loc.line_number = 1 + Cardinality({i \in 0..(P - 1) : C[i + 1] = NL})
       /\ loc.column_number = 1 + (P - s)

\* C5: for a registered content C and an offset at byte position P in
\* 0..=len(C), context_error_origin resolves to the line text C[s..e], s the
\* byte after the nearest '\n' before P (0 if none), e the nearest '\n' at or
\* after P (len(C) if none), to line number 1 + the number of '\n' before P
\* and to column number 1 + (P - s); the line text holds no '\n', s <= P <= e.
C5_LineResolution ==
    (last.op = "context_error_origin" /\ last.args.context = None) =>
        /\ last.result.kind = "Ok"
        /\ last.result.value.origin = maps[last.slot].data[1].origin
        /\ LocationLaw(ContentAt(last.slot, last.args.offset.source_index),
                       last.args.offset.byte,
                       last.result.value.location)

\* C5 witness: an offset standing on the '\n' that ends the second line, one
\* byte into that line, has been resolved
C5_Witness ==
    /\ last.op = "context_error_origin"
    /\ last.result.kind = "Ok"
    /\ last.result.value.location.line_number = 2
    /\ last.result.value.location.column_number = 2
    /\ Len(last.result.value.location.line) = 1
    /\ last.args.offset.byte = 2
    /\ Len(ContentAt(last.slot, last.args.offset.source_index)) = 3
    /\ ContentAt(last.slot, last.args.offset.source_index)[3] = NL

----------------------------------------------------------------------------
(* Claims about offsets, spans and source errors, checked under SpecError *)

ResolveOps == {"context_error_origin", "into_context_error"}

\* C6: a ContextErrorOrigin never pairs a primary line of one source with a
\* secondary line of another: whenever a context offset whose SourceIndex
\* differs from the primary offset's is supplied, through with_context and
\* into_context_error or through context_error_origin called directly, the
\* operation faults rather than producing an origin.
C6_MismatchedContextFaults ==
    (/\ last.op \in ResolveOps
     /\ last.args.context.kind = "Some"
     /\ last.args.context.value.source_index # last.args.offset.source_index)
        => IsFault(last.result)

\* C6 witness: context_error_origin, given a primary offset in one source of
\* the map and a context offset in the other, returned an origin holding a
\* line of each
C6_Witness ==
    /\ last.op = "context_error_origin"
    /\ last.args.context.kind = "Some"
    /\ last.args.context.value.source_index # last.args.offset.source_index
    /\ last.result.kind = "Ok"
    /\ last.result.value.context.kind = "Some"
    /\ last.result.value.location.line = <<"a", "a">>
    /\ last.result.value.context.value.line = <<"C3", "A9">>

\* C7: with_context(o) faults when o's SourceIndex differs from that of the
\* error's primary offset; when they are equal it returns the error with
\* context_offset() == Some(o) and the wrapped error, primary offset and note
\* unchanged.
C7_WithContextSameSource ==
    last.op = "with_context" =>
        LET e == last.args.self
            o == last.args.offset
        IN IF Offset_source_index(SourceError_offset(e)) # Offset_source_index(o)
           THEN IsFault(last.result)
           ELSE /\ last.result.kind = "Ok"
                /\ SourceError_context_offset(last.result.value) = Some(o)
                /\ SourceError_error(last.result.value) = SourceError_error(e)
                /\ SourceError_offset(last.result.value) = SourceError_offset(e)
                /\ SourceError_note(last.result.value) = SourceError_note(e)

\* C7 witness: with_context was given an offset of the other source of the
\* same map, and faulted
C7_Witness ==
    /\ last.op = "with_context"
    /\ IsFault(last.result)
    /\ last.args.offset.source_index.map_id = last.args.self.offset.source_index.map_id
    /\ last.args.offset.source_index # last.args.self.offset.source_index

\* C8: for two offsets a and b of the same source, a.span(b) == b.span(a),
\* the span starts at the smaller byte position and its byte_len is
\* |a.byte() - b.byte()|; for offsets of different sources span faults.
C8_SpanOrderIndependent ==
    last.op = "span" =>
        LET a == last.args.a
            b == last.args.b
            lo == IF a.byte < b.byte THEN a.byte ELSE b.byte
            hi == IF a.byte < b.byte THEN b.byte ELSE a.byte
        IN IF Offset_source_index(a) = Offset_source_index(b)
           THEN /\ last.result.kind = "Ok"
                /\ last.result = Offset_span(b, a)
                /\ Span_source_index(last.result.value) = Offset_source_index(a)
                /\ Offset_byte(Span_start(last.result.value)) = lo
                /\ Span_byte_len(last.result.value) = hi - lo
           ELSE IsFault(last.result) /\ IsFault(Offset_span(b, a))

\* C8 witness: the receiver stood behind the argument, two bytes apart
C8_Witness ==
    /\ last.op = "span"
    /\ last.result.kind = "Ok"
    /\ last.args.a.byte = last.args.b.byte + 2

\* C9: for a Span formed by Offset::span of two offsets taken from Inputs of
\* one source, end().byte() == start().byte() + byte_len(), byte_range() is
\* the half-open range [start().byte(), end().byte()), the range lies within
\* the source content, and span_str returns exactly the content bytes in it.
C9_SpanRangeAndText ==
    (last.op = "span_str" /\ SourceMap_contains(maps[last.slot],
                                                Span_source_index(last.args.span))) =>
        LET span == last.args.span
            C == ContentAt(last.slot, Span_source_index(span))
            range == Span_byte_range(span)
        IN /\ Offset_byte(Span_end(span))
                = Offset_byte(Span_start(span)) + Span_byte_len(span)
           /\ Offset_source_index(Span_end(span)) = Span_source_index(span)
           /\ range.start = Offset_byte(Span_start(span))
           /\ range.end = Offset_byte(Span_end(span))
           /\ 0 <= range.start /\ range.start <= range.end /\ range.end <= Len(C)
           /\ last.result = Ok(SubSeq(C, range.start + 1, range.end))

\* C9 witness: the text of a span over the two-byte character after the
\* first line has been read back
C9_Witness ==
    /\ last.op = "span_str"
    /\ last.result = Ok(<<"C3", "A9">>)
    /\ last.args.span.offset.byte = 2

----------------------------------------------------------------------------
(* Claims about traversal, checked under SpecCursor *)

CountOps == {"skip", "truncate", "split"}

\* what skip, truncate and split of Input i at byte count n are claimed to
\* return, and that the receiver is still what the program holds
SplitLaw(op, i, n, result) ==
    LET front == SubSeq(i.content, 1, n)
        back == SubSeq(i.content, n + 1, Len(i.content))
        truncated == [source_index |-> i.source_index, content |-> front, byte |-> i.byte]
        skipped == [source_index |-> i.source_index, content |-> back, byte |-> i.byte + n]
    IN /\ result.kind = "Ok"
       /\ op = "truncate" => result.value = truncated
       /\ op = "skip" => result.value = skipped
       /\ (op = "skip" /\ n = 0) =>
             (result.value.content = i.content /\ Input_offset(result.value) = Input_offset(i))
       /\ op = "split" =>
             /\ result.value = <<truncated, skipped>>
             /\ Ok(result.value[1]) = Input_truncate(i, n)
             /\ Ok(result.value[2]) = Input_skip(i, n)
       /\ cursor = i

\* C10 as stated: for every Input i and every n in 0..=i.len(), split(n) is
\* (truncate(n), skip(n)), truncate(n) keeps the offset and the first n bytes,
\* skip(n) advances the offset by n and drops the first n bytes, skip(0) has
\* the content and offset of i, and i is unchanged.
C10_SplitEveryCount ==
    (last.op \in CountOps /\ last.args.byte_len <= Input_len(last.args.input)) =>
        SplitLaw(last.op, last.args.input, last.args.byte_len, last.result)

\* C10 as amended: the same for every n in 0..=i.len() that is a character
\* boundary of i's content; for an n inside a multi-byte character, and for
\* an n beyond i.len(), skip, truncate and split fault.
C10_SplitAtBoundary ==
    last.op \in CountOps =>
        IF /\ last.args.byte_len <= Input_len(last.args.input)
           /\ is_char_boundary(last.args.input.content, last.args.byte_len)
        THEN SplitLaw(last.op, last.args.input, last.args.byte_len, last.result)
        ELSE IsFault(last.result) /\ cursor = last.args.input

\* C10 witness: an Input that stands past the start of its source has been
\* split inside its remaining content
C10_Witness ==
    /\ last.op = "split"
    /\ last.result.kind = "Ok"
    /\ last.args.input.byte > 0
    /\ last.args.byte_len > 0
    /\ last.args.byte_len < Input_len(last.args.input)

----------------------------------------------------------------------------
(* Claims about the character operations, checked under SpecCursor *)

\* the character the content begins with
FirstCharOf(content) == CHOOSE c \in CharSet : starts_with(content, c)

\* Input i advanced by n bytes
Advanced(i, n) ==
    [source_index |-> i.source_index,
     content |-> SubSeq(i.content, n + 1, Len(i.content)),
     byte |-> i.byte + n]

\* C11: skip_char(c) returns an Input exactly when the remaining content
\* begins with c, and then the result is skip(byte length of c); otherwise it
\* returns nothing.  char and take_char return nothing exactly when the input
\* is exhausted; otherwise take_char returns the first character together
\* with the input advanced by that character's byte length.
C11_CharOperations ==
    /\ last.op = "skip_char" =>
          LET i == last.args.input
              c == last.args.c
          IN IF i.content # <<>> /\ FirstCharOf(i.content) = c
             THEN /\ last.result = Some(Advanced(i, Len(c)))
                  /\ Ok(last.result.value) = Input_skip(i, Len(c))
             ELSE last.result = None
    /\ last.op = "char" =>
          LET i == last.args.input
          IN IF i.content = <<>> THEN last.result = None
             ELSE last.result = Some(FirstCharOf(i.content))
    /\ last.op = "take_char" =>
          LET i == last.args.input
          IN IF i.content = <<>> THEN last.result = None
             ELSE last.result = Some(<<FirstCharOf(i.content),
                                       Advanced(i, Len(FirstCharOf(i.content)))>>)
    /\ last.op \in {"skip_char", "char", "take_char"} => cursor = last.args.input

\* C11 witness: skip_char of the two-byte character, past one byte already
\* consumed, returned the input two bytes further on
C11_Witness ==
    /\ last.op = "skip_char"
    /\ last.args.c = <<"C3", "A9">>
    /\ last.args.input.byte = 1
    /\ last.result.kind = "Some"
    /\ last.result.value.byte = 3
    /\ last.result.value.content = <<>>

----------------------------------------------------------------------------
(* Claims about the rendered origin block, checked under SpecRender *)

RECURSIVE LinesOf(_)
\* the lines of a rendered text, each without the '\n' that ends it
LinesOf(text) ==
    LET nls == {i \in 1..Len(text) : text[i] = <<NL>>}
    IN IF nls = {} THEN (IF text = <<>> THEN <<>> ELSE <<text>>)
       ELSE <<SubSeq(text, 1, SetMin(nls) - 1)>>
              \o LinesOf(SubSeq(text, SetMin(nls) + 1, Len(text)))

\* where the gutter '|' stands in a printed line
GutterOf(line) == SetMin({i \in 1..Len(line) : line[i] = <<"|">>})

\* what a printed line shows before the gutter, without the padding
NumberOf(line) ==
    SelectSeq(SubSeq(line, 1, GutterOf(line) - 1), LAMBDA c : c # <<" ">>)

\* what a printed line shows after the gutter and the space that follows it
BodyOf(line) == SubSeq(line, GutterOf(line) + 2, Len(line))

KeepTab(c) == IF c = <<TAB>> THEN <<TAB>> ELSE <<" ">>

\* C13: in a rendered ContextErrorOrigin block the characters between the
\* gutter `|` and the caret `^` of the pointer line are, position by
\* position, the characters between the gutter `|` and the character at the
\* primary column in the printed primary line, with every tab kept as a tab
\* and every other character replaced by one space, for lines with tabs at
\* or before the primary column as for lines without; the caret is followed
\* by a space and the note.
C13_PointerUnderColumn ==
    (last.op = "fmt" /\ last.result.kind = "Ok") =>
        LET o == last.args.origin
            lines == LinesOf(last.result.value)
            primary == lines[Len(lines) - 1]
            pointer == lines[Len(lines)]
            g == GutterOf(primary)
            caret == SetMin({i \in 1..Len(pointer) : pointer[i] = <<"^">>})
            before == Len(chars(SubSeq(o.location.line, 1, o.location.column_number - 1)))
            shown == SubSeq(primary, g + 1, g + 1 + before)
        IN /\ GutterOf(pointer) = g
           /\ SubSeq(pointer, g + 1, caret - 1)
                = [i \in 1..Len(shown) |-> KeepTab(shown[i])]
           /\ SubSeq(pointer, caret, Len(pointer)) = <<<<"^">>, <<" ">>, <<o.note>>>>

\* C13 witness: under a primary line that begins with a tab, with the
\* primary column on the character after it, the pointer line has the tab
\* directly after the gutter, where the primary line has a space
C13_Witness ==
    /\ last.op = "fmt"
    /\ last.result.kind = "Ok"
    /\ last.args.origin.location.line = <<TAB, "a">>
    /\ last.args.origin.location.column_number = 2
    /\ LinesOf(last.result.value)[2] = <<<<" ">>, <<"1">>, <<" ">>, <<"|">>, <<" ">>, <<TAB>>, <<"a">>>>
    /\ LinesOf(last.result.value)[3]
         = <<<<" ">>, <<" ">>, <<" ">>, <<"|">>, <<TAB>>, <<" ">>, <<"^">>, <<" ">>, <<Note>>>>

----------------------------------------------------------------------------
(* Claims about the displayed error, checked under SpecReport *)

RECURSIVE ChainOf(_)
\* an error followed by its source chain, outermost cause first
ChainOf(e) == IF e.source.kind = "Some" THEN <<e>> \o ChainOf(e.source.value) ELSE <<e>>

RECURSIVE BlockLinesOf(_)
\* the lines of the rendered blocks of the origins, in their order
BlockLinesOf(os) ==
    IF os = <<>> THEN <<>>
    ELSE LinesOf(ContextErrorOrigin_fmt(Head(os)).value) \o BlockLinesOf(Tail(os))

\* C14: display_with_context emits, in this order: one line `error: <wrapped
\* error>`; one line `cause: <message>` for each error in the wrapped error's
\* source chain, outermost cause first and none for the wrapped error itself;
\* then the rendered block of each origin in the order the origins were
\* given.  With an empty cause chain no `cause:` line appears.
C14_DisplayWithContextOrder ==
    (last.op = "display_with_context" /\ last.result.kind = "Ok") =>
        LET e == last.args.error
            os == last.args.origins
            chain == ChainOf(e)
            lines == LinesOf(last.result.value)
            blocks == BlockLinesOf(os)
        IN /\ Len(lines) = Len(chain) + Len(blocks)
           /\ lines[1] = <<<<"error: ">>, <<e.text>>>>
           /\ \A k \in 2..Len(chain) : lines[k] = <<<<"cause: ">>, <<chain[k].text>>>>
           /\ \A k \in 1..Len(blocks) : lines[Len(chain) + k] = blocks[k]
           /\ last.result.value[Len(last.result.value)] = <<NL>>

\* C14 witness: an error with two causes has been displayed with a named and
\* a file origin
C14_Witness ==
    /\ last.op = "display_with_context"
    /\ last.result.kind = "Ok"
    /\ Len(ChainOf(last.args.error)) = 3
    /\ Len(last.args.origins) = 2
    /\ last.args.origins[1].origin.tag = "Named"
    /\ last.args.origins[2].origin.tag = "File"
    /\ Len(LinesOf(last.result.value)) = 9

\* an origin as the one-line form names it
SuffixOf(o) ==
    IF o.origin.tag = "File"
    THEN Lit("at ") \o Path_display(o.origin.name)
           \o Lit(":") \o fmt_usize(o.location.line_number)
           \o Lit(":") \o fmt_usize(o.location.column_number)
    ELSE Lit("in ") \o Lit(BACKTICK) \o Lit(o.origin.name) \o Lit(BACKTICK)
           \o Lit(", line ") \o fmt_usize(o.location.line_number)
           \o Lit(", column ") \o fmt_usize(o.location.column_number)

RECURSIVE ListedOf(_, _)
\* the first k origins, each followed by a comma
ListedOf(os, k) ==
    IF k = 0 THEN <<>>
    ELSE ListedOf(os, k - 1) \o Lit(" ") \o SuffixOf(os[k]) \o Lit(",")

\* C15: the one-line Display of a ContextError with n origins is the wrapped
\* error's text followed by nothing for n = 0, " <o1>" for n = 1, " <o1> and
\* <o2>" for n = 2, and for n >= 3 the origins in their order, each of the
\* first n-2 followed by a comma, with " and " between the last two; each
\* origin appears once, as `at <path>:<line>:<col>` for a file origin and as
\* in `<name>`, line L, column C for a named origin.
C15_OneLineDisplay ==
    last.op = "display" =>
        LET e == last.args.error
            os == last.args.origins
            n == Len(os)
        IN last.result =
             Ok(Lit(e.text)
                  \o (CASE n = 0 -> <<>>
                        [] n = 1 -> Lit(" ") \o SuffixOf(os[1])
                        [] OTHER -> ListedOf(os, n - 2)
                                      \o Lit(" ") \o SuffixOf(os[n - 1])
                                      \o Lit(" and ") \o SuffixOf(os[n])))

\* C15 witness: an error has been displayed with three origins, a file
\* origin between two named ones
C15_Witness ==
    /\ last.op = "display"
    /\ Len(last.args.origins) = 3
    /\ last.args.origins[1].origin.tag = "Named"
    /\ last.args.origins[2].origin.tag = "File"
    /\ last.args.origins[3].origin.tag = "Named"
    /\ last.args.origins[3].location.line_number = 2
    /\ last.result.kind = "Ok"

----------------------------------------------------------------------------
(* Claims about mapping and resolving a SourceError, checked under SpecError *)

\* C16: SourceError::map changes only the wrapped value: for all f and g,
\* e.map(f).map(g) has wrapped value g(f(v)), equal to e.map(|v| g(f(v))), and
\* the primary offset, the note and the optional context offset of the
\* result are those of e.
C16_MapChangesOnlyError ==
    last.op = "map" =>
        LET e == last.args.self
            f == last.args.map_error
            r == last.result.value
        IN /\ last.result.kind = "Ok"
           /\ SourceError_error(r) = f[SourceError_error(e)]
           /\ SourceError_offset(r) = SourceError_offset(e)
           /\ SourceError_note(r) = SourceError_note(e)
           /\ SourceError_context_offset(r) = SourceError_context_offset(e)
           /\ \A g \in MapFns :
                 /\ SourceError_error(SourceError_map(r, g)) = g[f[SourceError_error(e)]]
                 /\ SourceError_map(r, g)
                      = SourceError_map(e, [v \in ErrorValues |-> g[f[v]]])

\* C16 witness: an error holding a context offset has been mapped to another
\* wrapped value
C16_Witness ==
    /\ last.op = "map"
    /\ last.args.self.context_offset.kind = "Some"
    /\ last.args.self.context_offset.value.byte # last.args.self.offset.byte
    /\ last.result.value.error # last.args.self.error

\* C17: into_context_error(map) yields a ContextError whose wrapped error is
\* the SourceError's and whose origin sequence has exactly one element, equal
\* to map.context_error_origin(primary offset, note, context offset): it
\* equals ContextError::with_origins(error, [that origin]), the primary and
\* the secondary offset not swapped.
C17_IntoContextError ==
    last.op = "into_context_error" =>
        LET e == last.args.self
            map == last.pre
            origin == SourceMap_context_error_origin(
                          map, SourceError_offset(e), SourceError_note(e),
                          SourceError_context_offset(e))
        IN IF IsFault(origin) THEN IsFault(last.result)
           ELSE /\ last.result = Ok(ContextError_with_origins(SourceError_error(e),
                                                              <<origin.value>>))
                /\ Len(last.result.value.origins) = 1
                /\ last.result.value.error = SourceError_error(e)
                /\ last.result.value.origins[1].note = SourceError_note(e)
                /\ Ok(last.result.value.origins[1].location)
                     = SourceMap_context_error_location(map, SourceError_offset(e))
                /\ IF SourceError_context_offset(e).kind = "Some"
                   THEN Ok(last.result.value.origins[1].context.value)
                          = SourceMap_context_error_location(
                                map, SourceError_context_offset(e).value)
                   ELSE last.result.value.origins[1].context = None

\* C17 witness: an error on the second line with its context offset on the
\* first has been resolved
C17_Witness ==
    /\ last.op = "into_context_error"
    /\ last.result.kind = "Ok"
    /\ last.args.self.offset.byte = 2
    /\ last.args.self.context_offset = Some(Offset_new(SourceIndex(0, 0), 0))
    /\ last.result.value.origins[1].location.line_number = 2
    /\ last.result.value.origins[1].context.value.line_number = 1

----------------------------------------------------------------------------
(* Claims about loading and the shape of the registry, checked under Spec *)

\* post holds the entries of pre, in their slots, before any new ones
Extends(pre, post) ==
    /\ post.id = pre.id
    /\ Len(post.data) >= Len(pre.data)
    /\ \A i \in 1..Len(pre.data) : post.data[i] = pre.data[i]

\* C18: load_file(path): if Origin::File(path) is registered it returns
\* Previous(existing index) without reading the file and without changing the
\* map, also when the file cannot be read; otherwise, if the read fails, it
\* returns a read failure naming the path and adds no entry; otherwise it adds
\* exactly one entry under Origin::File(path) and returns Inserted.  It never
\* faults on the internal unwrap.
C18_LoadFile ==
    last.op = "load_file" =>
        LET pre == last.pre
            post == maps[last.slot]
            path == last.args.path
            at == SlotsOf(pre, Origin_from_file(path))
        IN /\ ~IsFault(last.result)
           /\ IF at # {}
              THEN /\ \E i \in at : last.result = Ok(Previous(SourceIndex(pre.id, i - 1)))
                   /\ post = pre
              ELSE IF last.args.fs[path].kind = "IoError"
              THEN /\ last.result.kind = "Err"
                   /\ last.result.error.kind = "Read"
                   /\ last.result.error.file = path
                   /\ post = pre
              ELSE /\ last.result = Ok(Inserted(SourceIndex(pre.id, Len(pre.data))))
                   /\ Len(post.data) = Len(pre.data) + 1
                   /\ Extends(pre, post)
                   /\ post.data[Len(post.data)]
                        = SourceData(Origin_from_file(path), last.args.fs[path].value)
                   /\ SourceMap_file_index(post, path)
                        = Some(SourceIndex(pre.id, Len(pre.data)))

\* C18 witness: load_file of a path registered by insert, the file itself
\* unreadable, has returned Previous
C18_Witness ==
    /\ last.op = "load_file"
    /\ last.args.fs[last.args.path].kind = "IoError"
    /\ last.result.kind = "Ok"
    /\ last.result.value.kind = "Previous"
    /\ Len(last.pre.data) = 2
    /\ last.result.value.index.data_index = 1

MutatingOps == {"insert", "load_file", "load_directory"}

\* the entry sequence and the origin-to-slot mapping of a map correspond one
\* to one
OneToOne(self) ==
    /\ \A i, j \in 1..Len(self.data) : self.data[i].origin = self.data[j].origin => i = j
    /\ DOMAIN self.origin_indices = {self.data[i].origin : i \in 1..Len(self.data)}
    /\ \A i \in 1..Len(self.data) :
          /\ SourceMap_origin(self, SourceIndex(self.id, i - 1)) = Ok(self.data[i].origin)
          /\ SourceMap_origin_index(self, self.data[i].origin)
               = Some(SourceIndex(self.id, i - 1))

\* C19: the SourceMap is append-only and duplicate-free after any sequence of
\* insert, load_file and load_directory calls, successful or failing: the
\* number of entries never decreases; every index issued earlier keeps
\* resolving to the same origin and content; no Origin occupies two slots; and
\* for every slot i, origin_index(origin(i)) == i.
C19_AppendOnlyDuplicateFree ==
    /\ \A s \in MapSlots : maps[s] # NoMap => OneToOne(maps[s])
    /\ last.op \in MutatingOps => Extends(last.pre, maps[last.slot])
    /\ \A s \in MapSlots, h \in handed :
          (maps[s] # NoMap /\ h.inst = Inst(s)) => SourceMap_contains(maps[s], h.idx)

\* C19 witness: a load_directory that found one file registered and read
\* another has left a map of three entries
C19_Witness ==
    /\ last.op = "load_directory"
    /\ last.result.kind = "Ok"
    /\ Len(last.result.value) = 2
    /\ last.result.value[1].kind = "Previous"
    /\ last.result.value[2].kind = "Inserted"
    /\ Len(last.pre.data) = 2
    /\ Len(maps[last.slot].data) = 3

RECURSIVE PathText(_)
\* the text of a path: its components with the separator between them
PathText(path) ==
    IF path = <<>> THEN <<>>
    ELSE Head(path) \o (IF Len(path) > 1 THEN <<SEP>> \o PathText(Tail(path)) ELSE <<>>)

\* the enumerated regular files whose path text ends with the extension
SelectedByText(walk, extension) ==
    SelectSeq(walk, LAMBDA entry :
        /\ entry.kind = "Ok"
        /\ entry.is_file
        /\ IsSuffixSeq(extension, PathText(entry.path)))

\* C20: load_directory(root, extension) selects, among the enumerated regular
\* files under root, exactly those whose path text ends with the extension
\* string (a suffix match on the path, e.g. `a/b.txt` for `.txt`), and returns
\* one outcome per selected file in enumeration order: Inserted for a newly
\* read file, Previous for a path already registered.
C20_SelectsByTextSuffix ==
    (last.op = "load_directory" /\ last.result.kind = "Ok") =>
        LET selected == SelectedByText(last.args.walk, last.args.extension)
            post == maps[last.slot]
        IN /\ Len(last.result.value) = Len(selected)
           /\ \A k \in 1..Len(selected) :
                 /\ SourceMap_file_index(post, selected[k].path)
                      = Some(last.result.value[k].index)
                 /\ last.result.value[k].kind =
                      (IF SourceMap_contains_file(last.pre, selected[k].path)
                       THEN "Previous" ELSE "Inserted")

\* C20 witness: the enumeration held the regular file d/b.txt, not registered
\* before, and load_directory with the extension .txt returned no outcome
\* for it and left it out of the map
C20_Witness ==
    /\ last.op = "load_directory"
    /\ last.args.extension = <<".txt">>
    /\ \E i \in 1..Len(last.args.walk) :
          /\ last.args.walk[i].kind = "Ok"
          /\ last.args.walk[i].is_file
          /\ last.args.walk[i].path = FileB
    /\ last.result = Ok(<<>>)
    /\ ~SourceMap_contains_file(maps[last.slot], FileB)

----------------------------------------------------------------------------
(* Claims about rendering at every position, checked under SpecRender *)

\* C21: rendering never faults for a reachable position: for every offset
\* obtainable from an Input over a registered source (any byte position P with
\* 0 <= P <= content length, including the end of the content, the position
\* of a newline, and position 0 of empty content), resolving it with
\* context_error_origin and formatting the resulting ContextErrorOrigin
\* completes; the slice of the primary line taken for the pointer line never
\* exceeds the line's length.
C21_RenderingNeverFaults ==
    last.op = "fmt" =>
        /\ ~IsFault(last.result)
        /\ last.args.origin.location.column_number
             <= Len(last.args.origin.location.line)

\* C21 witness: the origin resolved at position 0 of an empty source, line 1,
\* column 1 of an empty line, has been formatted and the formatting faulted
C21_Witness ==
    /\ last.op = "fmt"
    /\ maps["A"].data[1].content = <<>>
    /\ last.args.origin.location.line = <<>>
    /\ last.args.origin.location.line_number = 1
    /\ last.args.origin.location.column_number = 1
    /\ IsFault(last.result)

----------------------------------------------------------------------------
(* Claims about the window of an Input, checked under SpecCursor *)

\* the Input i is a window of the source map.input was called on: the same
\* SourceIndex, inside the content, holding the bytes of its range
WindowOf(i) ==
    LET source == SourceMap_content(maps["A"], SourceIndex(0, 0))
    IN /\ i.source_index = SourceIndex(0, 0)
       /\ source.kind = "Ok"
       /\ Input_offset(i).byte + Input_len(i) <= Len(source.value)
       /\ Input_content(i)
            = SubSeq(source.value, Input_offset(i).byte + 1,
                     Input_offset(i).byte + Input_len(i))

\* the Inputs an operation returned
ReturnedInputs(op, result) ==
    IF op \in {"skip", "truncate", "end", "input"} /\ result.kind = "Ok"
    THEN {result.value}
    ELSE IF op = "split" /\ result.kind = "Ok"
    THEN {result.value[1], result.value[2]}
    ELSE IF op = "skip_char" /\ result.kind = "Some"
    THEN {result.value}
    ELSE IF op = "take_char" /\ result.kind = "Some"
    THEN {result.value[2]}
    ELSE {}

\* C22: after any sequence of skip, truncate, split, end, skip_char and
\* take_char applied to an Input obtained from map.input(index), the resulting
\* Input keeps the same SourceIndex, satisfies offset().byte() + len() <=
\* length of map.content(index), and its content() equals
\* map.content(index)[offset().byte() .. offset().byte() + len()]; a skip or
\* truncate by more than len() faults instead of producing an Input.  Hence
\* every Offset taken from an Input lies within 0..=content length.
C22_InputWindow ==
    /\ cursor # NoInput => WindowOf(cursor)
    /\ \A i \in ReturnedInputs(last.op, last.result) : WindowOf(i)
    /\ (last.op \in {"skip", "truncate"}
          /\ last.args.byte_len > Input_len(last.args.input))
         => IsFault(last.result)
    /\ cursor # NoInput =>
         Input_offset(cursor).byte
           \in 0..Len(SourceMap_content(maps["A"], SourceIndex(0, 0)).value)

\* C22 witness: after a skip and a truncate the program holds an Input of one
\* byte that starts past the start of its source and ends before its end
C22_Witness ==
    /\ last.op = "adopt"
    /\ cursor # NoInput
    /\ Input_offset(cursor).byte = 1
    /\ Input_len(cursor) = 1
    /\ Len(maps["A"].data[1].content) = 3

====
